---- MODULE Spec2Model ----
(***************************************************************************)
(* The navigation transition engine of vue-router: the History base class  *)
(* (transitionTo / confirmTransition / updateRoute / onReady / onError)    *)
(* and its stack-backed subclass AbstractHistory (push / replace / go /    *)
(* getCurrentLocation).                                                    *)
(*                                                                         *)
(* A guard is user code that receives a continuation.  Invoking a guard    *)
(* suspends the transition; the guard calling its continuation is a later  *)
(* action (GuardNext).  A guard that answers at once is the behaviour in   *)
(* which GuardNext is the very next step.  A guard may also throw while it *)
(* is being invoked; that is the "th" input of every action that can       *)
(* invoke a guard.                                                         *)
(***************************************************************************)
EXTENDS Integers, Sequences, FiniteSets, TLC

\* ------------------------------------------------------------ bounds
\* Route objects that router.match may create in one behaviour.
MaxRoutes == 3
\* Transitions that may be suspended inside a guard at the same time.
MaxInflight == 2
\* Callbacks that may be registered with onReady, and with onError.
MaxCbs == 1
\* Longest matched list, and number of route records, resolveQueue is
\* applied to.
MaxMatched == 3
MaxRecord == 3

VARIABLES
    current,        \* History.current : Route
    pending,        \* History.pending : ?Route
    ready,          \* History.ready
    readyCbs,       \* History.readyCbs
    readyErrorCbs,  \* History.readyErrorCbs
    errorCbs,       \* History.errorCbs
    stack,          \* AbstractHistory.stack
    index,          \* AbstractHistory.index
    trans,          \* the confirmTransition activations suspended in a guard
    nextId,         \* identity of the next Route object router.match creates
    routesAdded,    \* whether the route map has been dynamically appended to
    instances,      \* route records whose component instance is registered
    router,         \* the router's hook lists and the hooks its records define
    enterCbs,       \* callbacks that enter guards passed to their continuations
    readyLog,       \* the queued onReady callbacks called so far, when kept (observation)
    ev              \* what the last action called, in call order (observation)

vars == <<current, pending, ready, readyCbs, readyErrorCbs, errorCbs,
          stack, index, trans, nextId, routesAdded, instances, router, enterCbs,
          readyLog, ev>>

\* ------------------------------------------------------------ routes
\* A Route object: its identity, its location and its matched records.
NULL == [id |-> -1, path |-> "", query |-> "", matched |-> <<>>]
START == [id |-> 0, path |-> "/", query |-> "", matched |-> <<>>]

\* The raw locations navigations are asked for.
RawLocs ==
    { [path |-> "/a", query |-> ""],
      [path |-> "/b", query |-> ""],
      [path |-> "/c", query |-> ""] }

\* The route map: /a and /b are children of one parent record (1); /c has
\* no record until the route map is appended to, and record 4 afterwards.
matchedOf(path, added) ==
    CASE path = "/a" -> <<1, 2>>
      [] path = "/b" -> <<1, 3>>
      [] path = "/c" -> IF added THEN <<4>> ELSE <<>>
      [] OTHER -> <<>>

\* router.match: a new Route object for the location.
match(loc, id, added) ==
    [id |-> id, path |-> loc.path, query |-> loc.query,
     matched |-> matchedOf(loc.path, added)]

fullPath(route) == route.path \o route.query

isSameRoute(a, b) == a.path = b.path /\ a.query = b.query

isError(v) == v = "error"

\* JavaScript truthiness of the values a continuation or abort receives.
truthy(v) == v \notin {"none", "false"}

\* Array.prototype.slice(start, end) for start >= 0 (a negative end counts
\* from the end of the array), on 1-based sequences.
jsSlice(s, start, end) ==
    LET e0 == IF end < 0 THEN Len(s) + end ELSE end
        e1 == IF e0 < 0 THEN 0 ELSE IF e0 > Len(s) THEN Len(s) ELSE e0
    IN  IF start >= e1 THEN <<>> ELSE SubSeq(s, start + 1, e1)

\* ------------------------------------------------------------ router configuration
\* The global hooks in registration order, the records whose component
\* defines each in-component hook, and the records with a beforeEnter.
\* An application with global hooks only:
GlobalHooksRouter ==
    [beforeHooks |-> <<1>>, resolveHooks |-> <<1>>, afterHooks |-> <<1>>,
     leave |-> {}, update |-> {}, enter |-> {}, beforeEnter |-> {}, app |-> FALSE]
\* An application with every kind of guard:
AllGuardsRouter ==
    [beforeHooks |-> <<1, 2>>, resolveHooks |-> <<1>>, afterHooks |-> <<1, 2>>,
     leave |-> {1, 2, 3}, update |-> {1}, enter |-> {2, 3}, beforeEnter |-> {1, 2},
     app |-> TRUE]
\* A rendered application whose components, the parent's too, define
\* beforeRouteEnter guards:
EnterGuardsRouter ==
    [beforeHooks |-> <<>>, resolveHooks |-> <<1>>, afterHooks |-> <<>>,
     leave |-> {}, update |-> {}, enter |-> {1, 2, 3}, beforeEnter |-> {},
     app |-> TRUE]
\* Records whose component is loaded on demand.
AsyncEntries == {4}

\* ------------------------------------------------------------ observation
Ev(type, rid, kind, arg, n) ==
    [type |-> type, rid |-> rid, kind |-> kind, arg |-> arg, n |-> n, ran |-> <<>>]

Emit(S, e) == [S EXCEPT !.ev = Append(@, e)]

\* cbs.forEach(cb => cb(arg))
EmitAll(S, type, cbs, arg) ==
    [S EXCEPT !.ev = @ \o [i \in 1..Len(cbs) |-> Ev(type, 0, "", arg, cbs[i])]]

St ==
    [current |-> current, pending |-> pending, ready |-> ready,
     readyCbs |-> readyCbs, readyErrorCbs |-> readyErrorCbs,
     errorCbs |-> errorCbs, stack |-> stack, index |-> index,
     trans |-> trans, nextId |-> nextId, enterCbs |-> enterCbs, ev |-> <<>>]

\* The callbacks of onReady registrations that the calls of a log drained
\* from a queue, in call order: <<name, which of the pair>>.
RECURSIVE drainedCalls(_, _)
drainedCalls(log, k) ==
    IF k = 0 THEN <<>>
    ELSE IF log[k].type = "readyCb" /\ log[k].arg = "route"
    THEN Append(drainedCalls(log, k - 1), <<log[k].n, "cb">>)
    ELSE IF log[k].type = "readyErrCb"
    THEN Append(drainedCalls(log, k - 1), <<log[k].n, "errorCb">>)
    ELSE drainedCalls(log, k - 1)

Apply(S) ==
    /\ current' = S.current
    /\ pending' = S.pending
    /\ ready' = S.ready
    /\ readyCbs' = S.readyCbs
    /\ readyErrorCbs' = S.readyErrorCbs
    /\ errorCbs' = S.errorCbs
    /\ stack' = S.stack
    /\ index' = S.index
    /\ trans' = S.trans
    /\ nextId' = S.nextId
    /\ enterCbs' = S.enterCbs
    /\ readyLog' = (IF readyLog.on
                    THEN [readyLog EXCEPT !.calls = @ \o drainedCalls(S.ev, Len(S.ev))]
                    ELSE readyLog)
    /\ ev' = S.ev

\* ------------------------------------------------------------ guard queues
Guard(kind, owner, fn) == [kind |-> kind, owner |-> owner, fn |-> fn]

Reverse(s) == [i \in 1..Len(s) |-> s[Len(s) + 1 - i]]

At(s, i) == IF i <= Len(s) THEN s[i] ELSE 0

RECURSIVE firstDiff(_, _, _, _)
firstDiff(cur, next, i, max) ==
    IF i > max \/ At(cur, i) # At(next, i) THEN i
    ELSE firstDiff(cur, next, i + 1, max)

\* resolveQueue whose loop never breaks.
resolveQueueNoBreak(cur, next) ==
    LET max == IF Len(cur) > Len(next) THEN Len(cur) ELSE Len(next)
        i == max + 1
    IN  [updated |-> jsSlice(next, 0, i - 1),
         activated |-> jsSlice(next, i - 1, Len(next)),
         deactivated |-> jsSlice(cur, i - 1, Len(cur))]

resolveQueue(cur, next) ==
    LET max == IF Len(cur) > Len(next) THEN Len(cur) ELSE Len(next)
        i == firstDiff(cur, next, 1, max)
    IN  [updated |-> jsSlice(next, 0, i - 1),
         activated |-> jsSlice(next, i - 1, Len(next)),
         deactivated |-> jsSlice(cur, i - 1, Len(cur))]

\* bindGuard: a leave or update guard exists only for a registered instance.
bindGuard(m, inst) == m \in inst

extractLeaveGuards(deactivated, inst) ==
    Reverse([i \in 1..Len(deactivated) |->
        Guard("leave", deactivated[i],
              deactivated[i] \in router.leave /\ bindGuard(deactivated[i], inst))])

extractUpdateHooks(updated, inst) ==
    [i \in 1..Len(updated) |->
        Guard("update", updated[i],
              updated[i] \in router.update /\ bindGuard(updated[i], inst))]

extractEnterGuards(activated) ==
    [i \in 1..Len(activated) |->
        Guard("enter", activated[i], activated[i] \in router.enter)]

\* Queue A built with the global before hooks ahead of the leave guards.
queueAHooksFirst(cur, route, inst) ==
    LET rq == resolveQueue(cur.matched, route.matched)
    IN  [i \in 1..Len(router.beforeHooks) |-> Guard("before", router.beforeHooks[i], TRUE)]
        \o extractLeaveGuards(rq.deactivated, inst)
        \o extractUpdateHooks(rq.updated, inst)
        \o [i \in 1..Len(rq.activated) |->
               Guard("beforeEnter", rq.activated[i], rq.activated[i] \in router.beforeEnter)]
        \o <<Guard("async", 0, TRUE)>>

queueA(cur, route, inst) ==
    LET rq == resolveQueue(cur.matched, route.matched)
    IN  extractLeaveGuards(rq.deactivated, inst)
        \o [i \in 1..Len(router.beforeHooks) |-> Guard("before", router.beforeHooks[i], TRUE)]
        \o extractUpdateHooks(rq.updated, inst)
        \o [i \in 1..Len(rq.activated) |->
               Guard("beforeEnter", rq.activated[i], rq.activated[i] \in router.beforeEnter)]
        \o <<Guard("async", 0, TRUE)>>

queueB(activated) ==
    extractEnterGuards(activated)
    \o [i \in 1..Len(router.resolveHooks) |-> Guard("resolve", router.resolveHooks[i], TRUE)]

\* resolveAsyncComponents: with nothing to load the step continues at once.
hasAsync(activated) == \E i \in 1..Len(activated) : activated[i] \in AsyncEntries

\* ------------------------------------------------------------ transitions
\* One confirmTransition activation: its closure variables, the place of
\* its runQueue, the guards it has invoked so far (ran), and whether a later
\* activation has taken the pending slot since it took it (superseded; both
\* are observation only).
Transition(route, from, kind, targetIndex, userCbs) ==
    [route |-> route, from |-> from, kind |-> kind, targetIndex |-> targetIndex,
     userCbs |-> userCbs, phase |-> "A", queue |-> <<>>, pos |-> 0,
     activated |-> <<>>, ran |-> <<>>, superseded |-> FALSE, cbs |-> <<>>]

\* The activation stops being suspended (i = 0: it never was).
drop(S, i) ==
    IF i = 0 THEN S
    ELSE [S EXCEPT !.trans = [k \in 1..(Len(@) - 1) |-> IF k < i THEN @[k] ELSE @[k + 1]]]

\* The activation is suspended in a guard.
store(S, i, t) ==
    IF i = 0 THEN [S EXCEPT !.trans = Append(@, t)]
    ELSE [S EXCEPT !.trans[i] = t]

\* transitionTo's onAbort draining the ready-error callbacks whatever the
\* abort's value.
transitionToOnAbortAnyValue(S, t, err) ==
    LET S1 == IF t.userCbs THEN Emit(S, Ev("onAbort", t.route.id, t.kind, err, 0)) ELSE S
    IN  IF ~S1.ready
        THEN EmitAll([S1 EXCEPT !.ready = TRUE], "readyErrCb", S1.readyErrorCbs, err)
        ELSE S1

\* transitionTo's onAbort argument to confirmTransition.
transitionToOnAbort(S, t, err) ==
    LET S1 == IF t.userCbs THEN Emit(S, Ev("onAbort", t.route.id, t.kind, err, 0)) ELSE S
    IN  IF truthy(err) /\ ~S1.ready
        THEN EmitAll([S1 EXCEPT !.ready = TRUE], "readyErrCb", S1.readyErrorCbs, err)
        ELSE S1

\* abort calling the global error callbacks for every value it is given.
abortEveryValue(S, t, err) ==
    LET S1 == IF err # "none"
              THEN IF Len(S.errorCbs) > 0
                   THEN EmitAll(S, "onError", S.errorCbs, err)
                   ELSE Emit(S, Ev("warn", t.route.id, t.kind, err, 0))
              ELSE S
        S2 == Emit(S1, Ev("abort", t.route.id, t.kind, err,
                          IF t.kind # "go" /\ t.userCbs THEN 1 ELSE 0))
    IN  IF t.kind = "go" THEN S2 ELSE transitionToOnAbort(S2, t, err)

\* The abort closure of confirmTransition (the event's n: whether the
\* navigation was given a per-call onAbort).
abort(S, t, err) ==
    LET S1 == IF isError(err)
              THEN IF Len(S.errorCbs) > 0
                   THEN EmitAll(S, "onError", S.errorCbs, err)
                   ELSE Emit(S, Ev("warn", t.route.id, t.kind, err, 0))
              ELSE S
        S2 == Emit(S1, Ev("abort", t.route.id, t.kind, err,
                          IF t.kind # "go" /\ t.userCbs THEN 1 ELSE 0))
    IN  IF t.kind = "go" THEN S2 ELSE transitionToOnAbort(S2, t, err)

\* AbstractHistory.ensureURL is a no-op; the call is observed.
ensureURL(S, t, arg) == Emit(S, Ev("ensureURL", t.route.id, t.kind, arg, 0))

updateRoute(S, t) ==
    LET S1 == Emit([S EXCEPT !.current = t.route],
                   [Ev("commit", t.route.id, t.kind,
                       IF t.superseded THEN "superseded" ELSE "", 0) EXCEPT !.ran = t.ran])
    IN  EmitAll(S1, "after", router.afterHooks, "")

\* onReady queueing the callback whether or not the history is ready.
onReadyAlwaysQueued(S, cb, hasErrorCb) ==
    [S EXCEPT !.readyCbs = Append(@, cb),
              !.readyErrorCbs = IF hasErrorCb THEN Append(@, cb) ELSE @]

\* The onComplete arguments push and replace give to transitionTo (the
\* "stack" event's n: how many entries the assignment dropped).
userOnComplete(S, t) ==
    IF t.userCbs
    THEN Emit(S, Ev("onComplete", t.route.id, t.kind,
                    IF t.superseded THEN "superseded" ELSE "", 0))
    ELSE S

\* push appending without dropping the entries forward of the cursor.
pushKeepingForward(S, t) ==
    LET S1 == [S EXCEPT !.stack = S.stack \o <<t.route>>, !.index = S.index + 1]
    IN  userOnComplete(Emit(S1, Ev("stack", t.route.id, t.kind, "", 0)), t)

pushOnComplete(S, t) ==
    LET kept == jsSlice(S.stack, 0, S.index + 1)
        S1 == [S EXCEPT !.stack = kept \o <<t.route>>, !.index = S.index + 1]
    IN  userOnComplete(Emit(S1, Ev("stack", t.route.id, t.kind, "", Len(S.stack) - Len(kept))), t)

replaceOnComplete(S, t) ==
    LET kept == jsSlice(S.stack, 0, S.index)
        S1 == [S EXCEPT !.stack = kept \o <<t.route>>]
    IN  userOnComplete(Emit(S1, Ev("stack", t.route.id, t.kind, "", Len(S.stack) - Len(kept))), t)

\* transitionTo's onComplete argument to confirmTransition.
\* transitionTo's onComplete draining the ready callbacks at every commit.
transitionToOnCompleteDrainsAgain(S, t) ==
    LET S1 == updateRoute(S, t)
        S2 == IF t.kind = "push" THEN pushOnComplete(S1, t) ELSE replaceOnComplete(S1, t)
        S3 == ensureURL(S2, t, "")
    IN  EmitAll([S3 EXCEPT !.ready = TRUE], "readyCb", S3.readyCbs, "route")

transitionToOnComplete(S, t) ==
    LET S1 == updateRoute(S, t)
        S2 == IF t.kind = "push" THEN pushOnComplete(S1, t) ELSE replaceOnComplete(S1, t)
        S3 == ensureURL(S2, t, "")
    IN  IF ~S3.ready
        THEN EmitAll([S3 EXCEPT !.ready = TRUE], "readyCb", S3.readyCbs, "route")
        ELSE S3

\* go's onComplete argument to confirmTransition.
goOnComplete(S, t) == updateRoute([S EXCEPT !.index = t.targetIndex], t)

\* The callback of the second runQueue (the "finish" event's n: the
\* identity of the route in the pending slot when the queue finished).
finishQueue(S, t) == Emit(S, Ev("finish", t.route.id, t.kind, "", S.pending.id))

\* this.router.app.$nextTick(() => postEnterCbs.forEach(cb => cb())): the
\* callbacks wait for the tick.
nextTick(S, t) ==
    IF router.app
    THEN [S EXCEPT !.enterCbs = @ \o [k \in 1..Len(t.cbs) |->
                                         [rid |-> t.route.id, owner |-> t.cbs[k],
                                          stage |-> "tick"]]]
    ELSE S

\* finish without the check of the pending slot.
finishUnchecked(S, t) ==
    LET S1 == [finishQueue(S, t) EXCEPT !.pending = NULL]
    IN  nextTick(IF t.kind = "go" THEN goOnComplete(S1, t) ELSE transitionToOnComplete(S1, t),
                 t)

\* The callback of the second runQueue never confirming the navigation.
finishAborts(S, t) == abort(finishQueue(S, t), t, "none")

finish(S, t) ==
    IF S.pending.id # t.route.id THEN abort(finishQueue(S, t), t, "none")
    ELSE LET S1 == [finishQueue(S, t) EXCEPT !.pending = NULL]
         IN  nextTick(IF t.kind = "go" THEN goOnComplete(S1, t)
                      ELSE transitionToOnComplete(S1, t), t)

\* The iterator taking a guard's exception for a plain end of the transition.
RECURSIVE stepSwallowsThrow(_, _, _, _, _)
stepSwallowsThrow(S, i, t, idx, th) ==
    IF idx > Len(t.queue)
    THEN IF t.phase = "A"
         THEN stepSwallowsThrow(S, i, [t EXCEPT !.phase = "B", !.queue = queueB(t.activated)],
                                1, th)
         ELSE finish(drop(S, i), t)
    ELSE IF ~t.queue[idx].fn
    THEN stepSwallowsThrow(S, i, t, idx + 1, th)
    ELSE IF S.pending.id # t.route.id
    THEN abort(drop(S, i), t, "none")
    ELSE LET g == t.queue[idx]
             S1 == Emit(S, Ev("guard", t.route.id, t.kind, g.kind, g.owner))
             t1 == [t EXCEPT !.pos = idx, !.ran = Append(@, g)]
         IN  IF g.kind = "async" /\ ~hasAsync(t.activated)
             THEN stepSwallowsThrow(S1, i, t1, idx + 1, th)
             ELSE IF th
             THEN abort(drop(Emit(S1, Ev("throw", t.route.id, t.kind, g.kind, g.owner)), i),
                        t1, "none")
             ELSE store(S1, i, t1)

\* runQueue's step with confirmTransition's iterator, from queue place idx
\* until a guard is invoked and left to call its continuation, or the
\* activation ends.
RECURSIVE step(_, _, _, _, _)
step(S, i, t, idx, th) ==
    IF idx > Len(t.queue)
    THEN IF t.phase = "A"
         THEN step(S, i, [t EXCEPT !.phase = "B", !.queue = queueB(t.activated)], 1, th)
         ELSE finish(drop(S, i), t)
    ELSE IF ~t.queue[idx].fn
    THEN step(S, i, t, idx + 1, th)
    ELSE IF S.pending.id # t.route.id
    THEN abort(drop(S, i), t, "none")
    ELSE LET g == t.queue[idx]
             S1 == Emit(S, Ev("guard", t.route.id, t.kind, g.kind, g.owner))
             t1 == [t EXCEPT !.pos = idx, !.ran = Append(@, g)]
         IN  IF g.kind = "async" /\ ~hasAsync(t.activated)
             THEN step(S1, i, t1, idx + 1, th)
             ELSE IF th
             THEN abort(drop(Emit(S1, Ev("throw", t.route.id, t.kind, g.kind, g.owner)), i),
                        t1, "error")
             ELSE store(S1, i, t1)

\* this.pending = route; every suspended activation has now seen a later
\* one take the slot.
takePending(S, route) ==
    [S EXCEPT !.pending = route,
              !.trans = [k \in 1..Len(@) |-> [@[k] EXCEPT !.superseded = TRUE]]]

\* confirmTransition taking only the very same Route object for a no-op.
confirmTransitionByIdentity(S, t, th) ==
    IF t.route.id = S.current.id
    THEN abort(ensureURL(S, t, ""), t, "none")
    ELSE LET rq == resolveQueue(S.current.matched, t.route.matched)
             t1 == [t EXCEPT !.queue = queueA(S.current, t.route, instances),
                             !.activated = rq.activated]
         IN  step(takePending(S, t.route), 0, t1, 1, th)

\* confirmTransition taking the pending slot before the same-route test.
confirmTransitionPendingFirst(S, t, th) ==
    IF /\ isSameRoute(t.route, S.current)
       /\ Len(t.route.matched) = Len(S.current.matched)
    THEN abort(ensureURL(takePending(S, t.route), t, ""), t, "none")
    ELSE LET rq == resolveQueue(S.current.matched, t.route.matched)
             t1 == [t EXCEPT !.queue = queueA(S.current, t.route, instances),
                             !.activated = rq.activated]
         IN  step(takePending(S, t.route), 0, t1, 1, th)

confirmTransition(S, t, th) ==
    IF /\ isSameRoute(t.route, S.current)
       /\ Len(t.route.matched) = Len(S.current.matched)
    THEN abort(ensureURL(S, t, ""), t, "none")
    ELSE LET rq == resolveQueue(S.current.matched, t.route.matched)
             t1 == [t EXCEPT !.queue = queueA(S.current, t.route, instances),
                             !.activated = rq.activated]
         IN  step(takePending(S, t.route), 0, t1, 1, th)

transitionTo(S, kind, loc, userCbs, th) ==
    LET route == match(loc, S.nextId, routesAdded)
    IN  confirmTransition([S EXCEPT !.nextId = @ + 1],
                          Transition(route, S.current, kind, 0, userCbs), th)

push(S, loc, userCbs, th) == transitionTo(S, "push", loc, userCbs, th)

replace(S, loc, userCbs, th) == transitionTo(S, "replace", loc, userCbs, th)

go(S, n, th) ==
    LET targetIndex == S.index + n
    IN  IF targetIndex < 0 \/ targetIndex >= Len(S.stack) THEN S
        ELSE confirmTransition(S,
                 Transition(S.stack[targetIndex + 1], S.current, "go", targetIndex, FALSE), th)

getCurrentLocation ==
    IF Len(stack) = 0 THEN "/" ELSE fullPath(stack[Len(stack)])

\* bindEnterGuard's wrapper of the continuation: next(cb), and a function
\* cb is added to the transition's postEnterCbs.
routeEnterGuard(t, v) ==
    IF v = "cb" /\ t.queue[t.pos].kind = "enter"
    THEN [t EXCEPT !.cbs = Append(@, t.queue[t.pos].owner)]
    ELSE t

\* poll: the callback is called with the registered instance; without one
\* a timer polls again while isValid(), that is this.current === route.
poll(S, k) ==
    LET e == S.enterCbs[k]
    IN  IF e.owner \in instances
        THEN Emit([S EXCEPT !.enterCbs[k].stage = "delivered"],
                  Ev("enterCb", e.rid, "", "instance", e.owner))
        ELSE IF S.current.id = e.rid
        THEN [S EXCEPT !.enterCbs[k].stage = "polling"]
        ELSE [S EXCEPT !.enterCbs[k].stage = "dropped"]

\* postEnterCbs.forEach(cb => { cb() }) for the callbacks from place k on
\* that wait for the tick.
RECURSIVE forEachPostEnterCb(_, _)
forEachPostEnterCb(S, k) ==
    IF k > Len(S.enterCbs) THEN S
    ELSE forEachPostEnterCb(IF S.enterCbs[k].stage = "tick" THEN poll(S, k) ELSE S, k + 1)

\* The handler ignoring the replace flag of a redirect.
nextPushOnly(S, i, v, to, th) ==
    LET t == S.trans[i]
    IN  IF v = "false" \/ isError(v)
        THEN abort(ensureURL(drop(S, i), t, "true"), t, v)
        ELSE IF v \in {"str", "obj", "objReplace"}
        THEN LET S1 == abort(drop(S, i), t, "none")
                 S2 == Emit(S1, Ev("nav", S1.nextId, "push", fullPath(to), 0))
             IN  push(S2, to, FALSE, th)
        ELSE step(S, i, routeEnterGuard(t, v), t.pos + 1, th)

\* The handler the iterator passes to the hook as its continuation: v is
\* what the guard passes, to the location a redirect names.
next(S, i, v, to, th) ==
    LET t == S.trans[i]
    IN  IF v = "false" \/ isError(v)
        THEN abort(ensureURL(drop(S, i), t, "true"), t, v)
        ELSE IF v \in {"str", "obj", "objReplace"}
        THEN LET S1 == abort(drop(S, i), t, "none")
                 S2 == Emit(S1, Ev("nav", S1.nextId, IF v = "objReplace" THEN "replace" ELSE "push",
                                   fullPath(to), 0))
             IN  IF v = "objReplace" THEN replace(S2, to, FALSE, th)
                 ELSE push(S2, to, FALSE, th)
        ELSE step(S, i, routeEnterGuard(t, v), t.pos + 1, th)

onReady(S, cb, hasErrorCb) ==
    IF S.ready
    THEN Emit(S, Ev("readyCb", 0, "", "", cb))
    ELSE [S EXCEPT !.readyCbs = Append(@, cb),
                   !.readyErrorCbs = IF hasErrorCb THEN Append(@, cb) ELSE @]

onError(S, errorCb) == [S EXCEPT !.errorCbs = Append(@, errorCb)]

\* ------------------------------------------------------------ actions
GoSteps == {-5, -2, -1, 0, 1, 2}

\* What a guard may pass to its continuation.
Vals(g) ==
    IF g.kind = "async" THEN {"none", "error"}
    ELSE IF g.kind = "enter" THEN {"none", "false", "error", "str", "obj", "objReplace", "cb"}
    ELSE {"none", "false", "error", "str", "obj", "objReplace"}

\* The guard's call of its continuation, as the first events of the action:
\* whose guard it is (n: its place in trans), the value, a redirect's target.
Called(i, v, to) ==
    <<Ev("next", trans[i].route.id, trans[i].kind, v, i)>>
    \o (IF v \in {"str", "obj", "objReplace"}
        THEN <<Ev("to", trans[i].route.id, trans[i].kind, fullPath(to), 0)>>
        ELSE <<>>)

Init ==
    /\ current = START
    /\ pending = NULL
    /\ ready = FALSE
    /\ readyCbs = <<>>
    /\ readyErrorCbs = <<>>
    /\ errorCbs = <<>>
    /\ stack = <<>>
    /\ index = -1
    /\ trans = <<>>
    /\ nextId = 1
    /\ routesAdded = FALSE
    /\ instances = {}
    /\ router = GlobalHooksRouter
    /\ enterCbs = <<>>
    /\ readyLog = [on |-> FALSE, calls |-> <<>>]
    /\ ev = <<>>

\* The same, for an application whose records and components define guards.
InitGuards ==
    /\ current = START
    /\ pending = NULL
    /\ ready = FALSE
    /\ readyCbs = <<>>
    /\ readyErrorCbs = <<>>
    /\ errorCbs = <<>>
    /\ stack = <<>>
    /\ index = -1
    /\ trans = <<>>
    /\ nextId = 1
    /\ routesAdded = FALSE
    /\ instances = {}
    /\ router = AllGuardsRouter
    /\ enterCbs = <<>>
    /\ readyLog = [on |-> FALSE, calls |-> <<>>]
    /\ ev = <<>>

Push(loc, th) ==
    /\ nextId <= MaxRoutes
    /\ Len(trans) < MaxInflight
    /\ Apply(push(St, loc, TRUE, th))
    /\ UNCHANGED <<routesAdded, instances, router>>

Replace(loc, th) ==
    /\ nextId <= MaxRoutes
    /\ Len(trans) < MaxInflight
    /\ Apply(replace(St, loc, TRUE, th))
    /\ UNCHANGED <<routesAdded, instances, router>>

Go(n, th) ==
    /\ Len(trans) < MaxInflight
    /\ Apply(go(St, n, th))
    /\ UNCHANGED <<routesAdded, instances, router>>

GuardNext(i, v, to, th) ==
    /\ i \in 1..Len(trans)
    /\ v \in Vals(trans[i].queue[trans[i].pos])
    /\ v \in {"str", "obj", "objReplace"} => nextId <= MaxRoutes
    /\ Apply(next([St EXCEPT !.ev = Called(i, v, to)], i, v, to, th))
    /\ UNCHANGED <<routesAdded, instances, router>>

\* Callbacks are named by their place among the registrations: cb is the
\* name of the pair (cb, errorCb) that onReady is given.
OnReady(hasErrorCb) ==
    /\ ~ready => Len(readyCbs) < MaxCbs
    /\ Apply(onReady([St EXCEPT !.ev = <<Ev("call", 0, "onReady",
                                             IF hasErrorCb THEN "errorCb" ELSE "",
                                             Len(readyCbs) + 1)>>],
                     Len(readyCbs) + 1, hasErrorCb))
    /\ UNCHANGED <<routesAdded, instances, router>>

OnError ==
    /\ Len(errorCbs) < MaxCbs
    /\ Apply(onError(St, Len(errorCbs) + 1))
    /\ UNCHANGED <<routesAdded, instances, router>>

\* router.addRoutes: the route map is dynamically appended to.
AddRoutes ==
    /\ ~routesAdded
    /\ routesAdded' = TRUE
    /\ ev' = <<>>
    /\ UNCHANGED <<current, pending, ready, readyCbs, readyErrorCbs, errorCbs, stack,
                   index, trans, nextId, instances, router, enterCbs,
                   readyLog>>

\* A render pass: the components of the current route register their
\* instances, those of records no longer matched are removed.
Render ==
    /\ instances # {current.matched[k] : k \in 1..Len(current.matched)}
    /\ instances' = {current.matched[k] : k \in 1..Len(current.matched)}
    /\ ev' = <<>>
    /\ UNCHANGED <<current, pending, ready, readyCbs, readyErrorCbs, errorCbs, stack,
                   index, trans, nextId, routesAdded, router, enterCbs,
                   readyLog>>

\* Navigation: the calls of the AbstractHistory API, and the guards calling
\* their continuations.
Start ==
    \/ \E loc \in RawLocs, th \in BOOLEAN : Push(loc, th)
    \/ \E loc \in RawLocs, th \in BOOLEAN : Replace(loc, th)
    \/ \E n \in GoSteps, th \in BOOLEAN : Go(n, th)

Continue ==
    \E i \in 1..MaxInflight, v \in {"none", "false", "error", "str", "obj", "objReplace"} :
          \E to \in (IF v \in {"str", "obj", "objReplace"} THEN RawLocs ELSE {CHOOSE l \in RawLocs : TRUE}),
             th \in (IF v \in {"false", "error"} THEN {FALSE} ELSE BOOLEAN) : GuardNext(i, v, to, th)

\* The history of an application with global hooks and no rendering root,
\* whose route map may be appended to.
Next ==
    \/ Start
    \/ Continue
    \/ AddRoutes

Spec == Init /\ [][Next]_vars

\* go by one entry, back or forward.
AdjacentSteps == {-1, 1}

\* The same history with callbacks registered through onReady and onError;
\* go is called with adjacent entries only.
NextCallbacks ==
    \/ \E loc \in RawLocs, th \in BOOLEAN : Push(loc, th)
    \/ \E loc \in RawLocs, th \in BOOLEAN : Replace(loc, th)
    \/ \E n \in AdjacentSteps, th \in BOOLEAN : Go(n, th)
    \/ Continue
    \/ \E hasErrorCb \in BOOLEAN : OnReady(hasErrorCb)
    \/ OnError

SpecCallbacks == Init /\ [][NextCallbacks]_vars

\* The history of a rendered application whose records and components
\* define guards, and whose caller starts a navigation only when none is
\* in flight.
NextRendered ==
    \/ trans = <<>> /\ Start
    \/ Continue
    \/ Render
    \/ AddRoutes

SpecGuards == InitGuards /\ [][NextRendered]_vars

\* ------------------------------------------------------------ guards that let pass
\* The guard in which the transition at place i is suspended calls its
\* continuation with no value.
Allow ==
    \E i \in 1..MaxInflight : GuardNext(i, "none", CHOOSE l \in RawLocs : TRUE, FALSE)

\* The history of a rendered application whose caller pushes a location
\* only when no navigation is in flight, and whose guards neither veto,
\* throw nor redirect.
NextAllowed ==
    \/ trans = <<>> /\ \E loc \in RawLocs : Push(loc, FALSE)
    \/ Allow
    \/ Render
    \/ AddRoutes

\* Every guard that was invoked calls its continuation in the end.
SpecAllowed == InitGuards /\ [][NextAllowed]_vars /\ WF_vars(Allow)

\* ------------------------------------------------------------ ready callbacks over time
\* The same as Init, with the calls of queued onReady callbacks kept.
InitLogged ==
    /\ current = START
    /\ pending = NULL
    /\ ready = FALSE
    /\ readyCbs = <<>>
    /\ readyErrorCbs = <<>>
    /\ errorCbs = <<>>
    /\ stack = <<>>
    /\ index = -1
    /\ trans = <<>>
    /\ nextId = 1
    /\ routesAdded = FALSE
    /\ instances = {}
    /\ router = GlobalHooksRouter
    /\ enterCbs = <<>>
    /\ readyLog = [on |-> TRUE, calls |-> <<>>]
    /\ ev = <<>>

\* Guards that let pass, veto or fail.
ContinueOrFail ==
    \E i \in 1..MaxInflight, v \in {"none", "false", "error"}, th \in BOOLEAN :
        GuardNext(i, v, CHOOSE l \in RawLocs : TRUE, v = "none" /\ th)

\* Pushes and onReady registrations in any order.
NextLogged ==
    \/ \E loc \in RawLocs, th \in BOOLEAN : Push(loc, th)
    \/ ContinueOrFail
    \/ \E hasErrorCb \in BOOLEAN : OnReady(hasErrorCb)

SpecLogged == InitLogged /\ [][NextLogged]_vars

\* ------------------------------------------------------------ enter callbacks
\* The same, for a rendered application whose components define
\* beforeRouteEnter guards.
InitEnter ==
    /\ current = START
    /\ pending = NULL
    /\ ready = FALSE
    /\ readyCbs = <<>>
    /\ readyErrorCbs = <<>>
    /\ errorCbs = <<>>
    /\ stack = <<>>
    /\ index = -1
    /\ trans = <<>>
    /\ nextId = 1
    /\ routesAdded = FALSE
    /\ instances = {}
    /\ router = EnterGuardsRouter
    /\ enterCbs = <<>>
    /\ readyLog = [on |-> FALSE, calls |-> <<>>]
    /\ ev = <<>>

Waiting(stage) == {k \in 1..Len(enterCbs) : enterCbs[k].stage = stage}

\* The $nextTick callback scheduled by a commit runs.
NextTick ==
    /\ Waiting("tick") # {}
    /\ Apply(forEachPostEnterCb(St, 1))
    /\ UNCHANGED <<routesAdded, instances, router>>

\* The 16 ms timer that poll set fires.
Timer(k) ==
    /\ k \in Waiting("polling")
    /\ Apply(poll([St EXCEPT !.ev = <<Ev("timer", enterCbs[k].rid, "", "", k)>>], k))
    /\ UNCHANGED <<routesAdded, instances, router>>

\* Guards calling their continuations, an enter guard possibly with a
\* callback for the component instance.
ContinueEnter ==
    \E i \in 1..MaxInflight, v \in {"none", "false", "cb"} :
        GuardNext(i, v, CHOOSE l \in RawLocs : TRUE, FALSE)

\* The history of such an application, whose caller pushes a location only
\* when no navigation is in flight: the tick a commit scheduled runs before
\* any later navigation or continuation.
NextEnter ==
    \/ Waiting("tick") = {} /\ trans = <<>> /\ \E loc \in RawLocs, th \in BOOLEAN : Push(loc, th)
    \/ Waiting("tick") = {} /\ ContinueEnter
    \/ Render
    \/ NextTick
    \/ \E k \in 1..(2 * MaxRoutes) : Timer(k)

SpecEnter == InitEnter /\ [][NextEnter]_vars

\* ------------------------------------------------------------ resolveQueue alone
\* Every list of route records up to the bounds.
MatchedLists ==
    UNION {[1..n -> 1..MaxRecord] : n \in 0..MaxMatched}

\* confirmTransition has been called with a route, for any matched lists of
\* current and of the route, and has not yet computed the queue.
InitResolve ==
    /\ \E m \in MatchedLists : current = [START EXCEPT !.matched = m]
    /\ \E m \in MatchedLists :
          trans = <<Transition([id |-> 1, path |-> "/a", query |-> "", matched |-> m],
                               current, "push", 0, FALSE)>>
    /\ pending = NULL
    /\ ready = FALSE
    /\ readyCbs = <<>>
    /\ readyErrorCbs = <<>>
    /\ errorCbs = <<>>
    /\ stack = <<>>
    /\ index = -1
    /\ nextId = 2
    /\ routesAdded = FALSE
    /\ instances = {}
    /\ router = GlobalHooksRouter
    /\ enterCbs = <<>>
    /\ readyLog = [on |-> FALSE, calls |-> <<>>]
    /\ ev = <<>>

\* confirmTransition's call of resolveQueue(this.current.matched,
\* route.matched); the result is observed in the event's ran field.
ResolveQueue ==
    /\ ev = <<>>
    /\ Len(trans) = 1
    /\ ev' = <<[Ev("resolveQueue", trans[1].route.id, trans[1].kind, "", 0)
                  EXCEPT !.ran = resolveQueue(current.matched, trans[1].route.matched)]>>
    /\ UNCHANGED <<current, pending, ready, readyCbs, readyErrorCbs, errorCbs, stack,
                   index, trans, nextId, routesAdded, instances, router, enterCbs,
                   readyLog>>

SpecResolve == InitResolve /\ [][ResolveQueue]_vars

\* ------------------------------------------------------------ properties
\* The events of the last action, by place.
EvOf(log, types) == {k \in 1..Len(log) : log[k].type \in types}

Paths(s) == [k \in 1..Len(s) |-> fullPath(s[k])]

\* C1: a transition that was suspended in a guard when a later transition
\* took the pending slot never commits its target as current and never
\* calls its onComplete, whatever its guards pass to their continuations
\* afterwards (for transitions started by push, replace and go alike).
C1_SupersededNeverCommits ==
    \A k \in EvOf(ev, {"commit", "onComplete"}) : ev[k].arg # "superseded"

\* C2: current changes only in the commit step of a transition: an action
\* in which no transition commits leaves current as it was, and a commit of
\* route R comes right after R's last guard queue finished with R in the
\* pending slot, and makes R current.
C2_CurrentChangesOnlyOnCommit ==
    [][LET commits == EvOf(ev', {"commit"})
       IN  /\ commits = {} => current' = current
           /\ \A k \in commits :
                 /\ k > 1
                 /\ ev'[k - 1].type = "finish"
                 /\ ev'[k - 1].rid = ev'[k].rid
                 /\ ev'[k - 1].n = ev'[k].rid
                 /\ current'.id = ev'[k].rid
           /\ Cardinality(commits) <= 1]_vars

\* C2's case: a transition has committed over an earlier current route while
\* another transition was aborted in the same history.
C2_Witness ==
    /\ \E k \in EvOf(ev, {"commit"}) : current.id = ev[k].rid
    /\ Len(stack) = 1
    /\ nextId = 3

\* How often the last action called a callback of the given kind and name.
Calls(log, type, name) == Cardinality({k \in EvOf(log, {type}) : log[k].n = name})

IssuedByRedirect(t) == t.kind # "go" /\ ~t.userCbs

Redirects == {"str", "obj", "objReplace"}

\* The redirect part of C4: the transition to X aborts with no error value
\* and no error callback, X is not committed, and exactly one navigation to
\* Y is issued, a replace when the redirect carries the replace flag and a
\* push otherwise.
RedirectStep ==
    \A h \in EvOf(ev', {"next"}) :
        ev'[h].arg \in Redirects =>
            LET i == ev'[h].n
                x == trans[i].route.id
                navs == EvOf(ev', {"nav"})
                nav == CHOOSE k \in navs : TRUE
                aborts == {k \in 1..(nav - 1) : ev'[k].type = "abort"}
                onAborts == {k \in 1..(nav - 1) : ev'[k].type = "onAbort"}
            IN  /\ Cardinality(navs) = 1
                /\ ev'[nav].kind = (IF ev'[h].arg = "objReplace" THEN "replace" ELSE "push")
                /\ ev'[nav].arg = ev'[h + 1].arg
                /\ ev'[nav].rid = nextId
                /\ Cardinality(aborts) = 1
                /\ \A k \in aborts : ev'[k].rid = x /\ ev'[k].arg = "none"
                /\ \A k \in EvOf(ev', {"onError", "warn", "readyErrCb"}) : k > nav
                /\ Cardinality(onAborts) =
                      (IF trans[i].kind # "go" /\ trans[i].userCbs THEN 1 ELSE 0)
                /\ \A k \in onAborts : ev'[k].rid = x /\ ev'[k].arg = "none"
                /\ \A k \in EvOf(ev', {"commit"}) : ev'[k].rid # x
                /\ current'.id # x \/ current.id = x

\* The guards of the navigation to Y, issued by a redirect, have all
\* continued without a veto, an exception or a redirect: the navigation
\* ends in this action, by a commit or by a silent abort.
RedirectedEnds(h) ==
    /\ ev'[h].arg = "none"
    /\ IssuedByRedirect(trans[ev'[h].n])
    /\ \E k \in EvOf(ev', {"abort", "commit"}) :
          ev'[k].rid = ev'[h].rid /\ ev'[k].arg # "error"

\* C4 (as claimed): a redirect from X to Y aborts X with no error, never
\* commits X, issues exactly one navigation to Y, and if no guard of the
\* navigation to Y vetoes or redirects, current ends equal to the resolved Y.
C4_RedirectEndsAtTarget ==
    [][/\ RedirectStep
       /\ \A h \in EvOf(ev', {"next"}) :
             RedirectedEnds(h) => isSameRoute(current', trans[ev'[h].n].route)]_vars

\* C4 (amended): the same, where current ends equal to the resolved Y if no
\* guard of the navigation to Y vetoes, throws or redirects and no newer
\* navigation has taken the pending slot before its last guard continues.
C4_RedirectEndsAtTargetUnlessSuperseded ==
    [][/\ RedirectStep
       /\ \A h \in EvOf(ev', {"next"}) :
             (RedirectedEnds(h) /\ ~trans[ev'[h].n].superseded) =>
                 /\ current' = trans[ev'[h].n].route
                 /\ current # trans[ev'[h].n].route]_vars

\* C4's case: the navigation a redirect issued has committed its target.
C4_Witness ==
    /\ \E k \in EvOf(ev, {"commit"}) : ev[k].kind # "go" /\ current.id = ev[k].rid
    /\ EvOf(ev, {"onComplete"}) = {}

\* C5: a push or replace to the location current already is, with as many
\* matched records, runs no guard and no after hook, commits nothing, and
\* aborts with no error value; the pending slot, the stack and the
\* suspended transitions are as before.
C5_SameLocationIsNoOp ==
    [][\A loc \in RawLocs, th \in BOOLEAN :
         LET route == match(loc, nextId, routesAdded)
         IN  (/\ isSameRoute(route, current)
              /\ Len(route.matched) = Len(current.matched)
              /\ Push(loc, th) \/ Replace(loc, th)) =>
                /\ EvOf(ev', {"guard", "commit", "after", "onComplete"}) = {}
                /\ EvOf(ev', {"onError", "warn", "readyCb", "readyErrCb"}) = {}
                /\ Cardinality(EvOf(ev', {"abort"})) = 1
                /\ \A k \in EvOf(ev', {"abort", "onAbort"}) :
                      ev'[k].arg = "none" /\ ev'[k].rid = nextId
                /\ UNCHANGED <<current, pending, stack, index, trans, ready>>]_vars

\* C5's case: a navigation to the location of current was aborted at once,
\* after the route map had been appended to.
C5_Witness ==
    /\ Len(ev) = 3
    /\ ev[1].type = "ensureURL" /\ ev[2].type = "abort" /\ ev[3].type = "onAbort"
    /\ ev[2].arg = "none" /\ ev[2].rid = nextId - 1
    /\ current.path = "/c" /\ current.matched = <<4>>

\* The callbacks the last action called while draining a queue, in order.
Drained(log, type, arg) ==
    LET ks == {k \in 1..Len(log) : log[k].type = type /\ log[k].arg = arg}
        RECURSIVE upTo(_)
        upTo(k) == IF k = 0 THEN <<>>
                   ELSE IF k \in ks THEN Append(upTo(k - 1), log[k].n) ELSE upTo(k - 1)
    IN  upTo(Len(log))

\* ------------------------------------------------------------ C6
\* The fixed precedence of the guard kinds.
Rank(kind) ==
    CASE kind = "leave" -> 1
      [] kind = "before" -> 2
      [] kind = "update" -> 3
      [] kind = "beforeEnter" -> 4
      [] kind = "async" -> 5
      [] kind = "enter" -> 6
      [] kind = "resolve" -> 7

Entries(matched) == {matched[k] : k \in 1..Len(matched)}

\* The guards a transition has invoked, in the order it invoked them: kinds
\* in the fixed precedence; leave guards child before parent, the guards of
\* every other kind in the order of the entries or of registration; each
\* guard of an entry of the right class (deactivated, reused, activated).
InOrder(ran, from, route) ==
    /\ \A a, b \in 1..Len(ran) :
          a < b =>
             \/ Rank(ran[a].kind) < Rank(ran[b].kind)
             \/ /\ ran[a].kind = ran[b].kind
                /\ IF ran[a].kind = "leave" THEN ran[a].owner > ran[b].owner
                   ELSE ran[a].owner < ran[b].owner
    /\ \A a \in 1..Len(ran) :
          CASE ran[a].kind = "leave" ->
                 ran[a].owner \in Entries(from.matched) \ Entries(route.matched)
            [] ran[a].kind = "update" ->
                 ran[a].owner \in Entries(from.matched) \cap Entries(route.matched)
            [] ran[a].kind \in {"beforeEnter", "enter"} ->
                 ran[a].owner \in Entries(route.matched) \ Entries(from.matched)
            [] OTHER -> TRUE

\* A guard is invoked only when the transition starts, when the guard before
\* it has called its continuation, or right after the async step that had
\* nothing to load.
OneAtATime ==
    \A k \in EvOf(ev', {"guard"}) :
        LET before == {j \in EvOf(ev', {"guard"}) : j < k /\ ev'[j].rid = ev'[k].rid}
            suspended == {trans[i].route.id : i \in 1..Len(trans)}
        IN  IF before = {}
            THEN \/ ev'[k].rid \notin suspended
                 \/ /\ ev'[1].type = "next" /\ ev'[1].arg = "none"
                    /\ ev'[1].rid = ev'[k].rid
                    /\ \A i \in 1..Len(trans') :
                          trans'[i].route.id = ev'[k].rid =>
                             Len(trans'[i].ran) > Len(trans[ev'[1].n].ran)
            ELSE /\ (k - 1) \in before
                 /\ ev'[k - 1].arg = "async"

\* C6: within one transition the guards run one at a time in the fixed
\* order leave (child before parent), global before, update, entry-enter,
\* async resolution, fragment-enter, before-resolve; the commit comes after
\* every global hook and the async step have run, and the global after hooks
\* follow the commit in registration order.
C6_GuardsRunInOrder ==
    [][/\ OneAtATime
       /\ \A i \in 1..Len(trans') :
             InOrder(trans'[i].ran, trans'[i].from, trans'[i].route)
       /\ \A k \in EvOf(ev', {"commit"}) :
             LET ran == ev'[k].ran
                 ofKind(kind) == [j \in {x \in 1..Len(ran) : ran[x].kind = kind} |-> ran[j].owner]
             IN  /\ InOrder(ran, current, current')
                 /\ Cardinality(DOMAIN ofKind("before")) = Len(router.beforeHooks)
                 /\ Cardinality(DOMAIN ofKind("resolve")) = Len(router.resolveHooks)
                 /\ Cardinality(DOMAIN ofKind("async")) = 1
                 /\ \A j \in EvOf(ev', {"guard"}) : j < k
                 /\ \A j \in EvOf(ev', {"after"}) : j > k
                 /\ Drained(ev', "after", "") = router.afterHooks]_vars

\* C6's case: a transition that ran a guard of every kind has committed.
C6_Witness ==
    \E k \in EvOf(ev, {"commit"}) :
        /\ {ev[k].ran[j].kind : j \in 1..Len(ev[k].ran)} =
              {"leave", "before", "update", "beforeEnter", "async", "enter", "resolve"}
        /\ Len(ev[k].ran) >= 8
        /\ current.id = ev[k].rid

\* ------------------------------------------------------------ C7, C8
\* C7: the ready bookkeeping fires exactly once.  While the flag is unset,
\* the first successful transition drains the ready callbacks (each once,
\* in order) and sets the flag, the first abort with an error value drains
\* the ready-error callbacks and sets the flag, and an action with neither
\* (a no-op, a supersession, a redirect, a veto with false) drains nothing
\* and leaves the flag unset; once set, the flag stays set and nothing is
\* drained again.
C7_ReadyFiresOnce ==
    [][LET commits == EvOf(ev', {"commit"})
           errors == {k \in EvOf(ev', {"abort"}) : ev'[k].arg = "error"}
           okCbs == Drained(ev', "readyCb", "route")
           errCbs == Drained(ev', "readyErrCb", "error")
           errAny == EvOf(ev', {"readyErrCb"})
       IN  /\ ready => ready' /\ okCbs = <<>> /\ errAny = {}
           /\ (~ready /\ commits # {}) =>
                 ready' /\ okCbs = readyCbs /\ errAny = {}
           /\ (~ready /\ errors # {}) =>
                 ready' /\ errCbs = readyErrorCbs /\ okCbs = <<>>
                        /\ Cardinality(errAny) = Len(errCbs)
           /\ (~ready /\ commits = {} /\ errors = {}) =>
                 ~ready' /\ okCbs = <<>> /\ errAny = {}]_vars

\* C7's case: the ready-error callbacks were drained by the first abort with
\* an error value, with a ready callback still queued.
C7_Witness ==
    /\ ready
    /\ readyCbs # <<>>
    /\ Drained(ev, "readyErrCb", "error") = readyErrorCbs
    /\ readyErrorCbs # <<>>

\* C8: onReady(cb, errCb) called with the ready flag set calls cb during the
\* call and queues nothing; called with the flag unset it calls nothing and
\* queues cb, and errCb if one is given.
C8_OnReadyImmediateOrQueued ==
    [][\A h \in EvOf(ev', {"call"}) :
         ev'[h].kind = "onReady" =>
            LET cb == ev'[h].n
                called == EvOf(ev', {"readyCb", "readyErrCb"})
            IN  /\ ready' = ready
                /\ ready =>
                     /\ Cardinality(called) = 1
                     /\ \A k \in called : ev'[k].type = "readyCb" /\ ev'[k].n = cb
                     /\ readyCbs' = readyCbs
                     /\ readyErrorCbs' = readyErrorCbs
                /\ ~ready =>
                     /\ called = {}
                     /\ readyCbs' = Append(readyCbs, cb)
                     /\ readyErrorCbs' = (IF ev'[h].arg = "errorCb"
                                          THEN Append(readyErrorCbs, cb)
                                          ELSE readyErrorCbs)]_vars

\* C8's case: onReady was called after the history became ready, and the
\* callback ran during the call.
C8_Witness ==
    /\ ready
    /\ Len(ev) = 2
    /\ ev[1].type = "call" /\ ev[1].kind = "onReady"
    /\ ev[2].type = "readyCb"

\* ------------------------------------------------------------ C9, C10
\* push('/a'), push('/b') and go(-1) have each completed, from an empty stack:
\* the last action committed the go.
BackFromB(log, s, i, cur, made) ==
    /\ Paths(s) = <<"/a", "/b">>
    /\ i = 0
    /\ cur = s[1]
    /\ made = 2
    /\ \E k \in EvOf(log, {"commit"}) : log[k].kind = "go"

\* C9: after push('/a'), push('/b') and go(-1) have each completed,
\* getCurrentLocation() returns '/a', and a following go(-5) is a no-op that
\* leaves the cursor and current unchanged.
C9_CurrentLocationAfterBack ==
    [][/\ BackFromB(ev', stack', index', current', nextId' - 1) => getCurrentLocation' = "/a"
       /\ \A th \in BOOLEAN :
             (BackFromB(ev, stack, index, current, nextId - 1) /\ Go(-5, th)) =>
                 index' = index /\ current' = current]_vars

\* C10: every successful push leaves the stack as the entries up to the old
\* cursor followed by the new route, with the cursor on that last entry; so
\* after push('/a'), push('/b'), go(-1), push('/c') the stack is
\* ['/a', '/c'], and go(1) with the cursor on the last entry is a no-op.
C10_PushTruncatesForward ==
    [][/\ \A k \in EvOf(ev', {"commit"}) :
             ev'[k].kind = "push" =>
                /\ stack' = SubSeq(stack, 1, index + 1) \o <<current'>>
                /\ current'.id = ev'[k].rid
                /\ index' = index + 1
                /\ index' = Len(stack') - 1
                /\ (Paths(stack) = <<"/a", "/b">> /\ index = 0 /\ fullPath(current') = "/c")
                      => Paths(stack') = <<"/a", "/c">>
       /\ \A th \in BOOLEAN :
             (index = Len(stack) - 1 /\ Go(1, th)) =>
                 /\ ev' = <<>>
                 /\ UNCHANGED <<current, pending, stack, index, trans>>]_vars

\* C10's case: push('/c') has completed after push('/a'), push('/b') and
\* go(-1), and dropped the entry forward of the cursor.
C10_Witness ==
    /\ Paths(stack) = <<"/a", "/c">>
    /\ index = 1
    /\ current = stack[2]
    /\ \E k \in EvOf(ev, {"commit"}) : ev[k].kind = "push"
    /\ \E k \in EvOf(ev, {"stack"}) : ev[k].n = 1

\* ------------------------------------------------------------ C11
\* C11: for all matched lists current and next, resolveQueue returns as
\* updated exactly the longest common leading run of identical entries, as
\* activated the rest of next and as deactivated the rest of current.
C11_ResolveQueuePrefixStable ==
    \A k \in EvOf(ev, {"resolveQueue"}) :
        LET r == ev[k].ran
            cur == current.matched
            nxt == trans[1].route.matched
            n == Len(r.updated)
        IN  /\ r.updated \o r.activated = nxt
            /\ r.updated \o r.deactivated = cur
            /\ n <= Len(cur)
            /\ \A j \in 1..n : cur[j] = nxt[j]
            /\ n = Len(cur) \/ n = Len(nxt) \/ cur[n + 1] # nxt[n + 1]

\* C11's case: resolveQueue was applied to lists of unequal lengths that
\* share a leading run and differ after it.
C11_Witness ==
    /\ current.matched = <<1, 2>>
    /\ \E k \in EvOf(ev, {"resolveQueue"}) :
          /\ trans[1].route.matched = <<1, 3, 2>>
          /\ ev[k].ran.updated = <<1>>
          /\ ev[k].ran.activated = <<3, 2>>
          /\ ev[k].ran.deactivated = <<2>>

\* ------------------------------------------------------------ C12
\* How many activations of the route are suspended in a guard.
Suspended(tr, rid) == Cardinality({i \in 1..Len(tr) : tr[i].route.id = rid})

\* The outcome of an abort of route rid with an error value, by the event at
\* place a of the action's log: every global error callback receives the
\* error once, onAbort (when the navigation was given one) is called once
\* with the error, current is unchanged, and the ready-error callbacks are
\* drained if no transition had resolved before (and not otherwise).
ErrorOutcome(a, rid) ==
    /\ ev'[a].type = "abort" /\ ev'[a].rid = rid /\ ev'[a].arg = "error"
    /\ Drained(ev', "onError", "error") = errorCbs
    /\ errorCbs = <<>> <=> EvOf(ev', {"warn"}) # {}
    /\ {k \in EvOf(ev', {"onAbort"}) : ev'[k].arg = "error"} =
          (IF ev'[a].n = 1 THEN {a + 1} ELSE {})
    /\ \A k \in EvOf(ev', {"onAbort"}) : ev'[k].arg = "error" => ev'[k].rid = rid
    /\ current' = current
    /\ EvOf(ev', {"commit"}) = {}
    /\ IF ready THEN EvOf(ev', {"readyErrCb"}) = {}
       ELSE ready' /\ Drained(ev', "readyErrCb", "error") = readyErrorCbs

\* C12: a guard that throws while the iterator invokes it ends the
\* transition as a guard calling its continuation with the error does: the
\* global error callbacks each receive the error, onAbort is called with it,
\* no later guard of the transition runs, current is unchanged, and the
\* ready-error queue is drained if this is the first resolved transition.
C12_ThrowIsErrorAbort ==
    [][/\ \A k \in EvOf(ev', {"throw"}) :
             /\ k = Len(ev') \/ ErrorOutcome(CHOOSE a \in EvOf(ev', {"abort"}) : a > k,
                                             ev'[k].rid)
             /\ k < Len(ev')
             /\ ev'[k - 1].type = "guard" /\ ev'[k - 1].rid = ev'[k].rid
             /\ \A j \in EvOf(ev', {"guard"}) : j < k
             /\ Suspended(trans', ev'[k].rid) =
                   Suspended(trans, ev'[k].rid)
                   - (IF ev'[1].type = "next" /\ ev'[1].rid = ev'[k].rid THEN 1 ELSE 0)
       /\ \A h \in EvOf(ev', {"next"}) :
             (ev'[h].arg = "error" /\ ev'[h].rid = pending.id) =>
                /\ \E a \in EvOf(ev', {"abort"}) : ErrorOutcome(a, ev'[h].rid)
                /\ EvOf(ev', {"guard"}) = {}
                /\ Suspended(trans', ev'[h].rid) = Suspended(trans, ev'[h].rid) - 1]_vars

\* C12's case: the first guard of the first navigation has thrown, with a
\* global error callback and a ready-error callback registered.
C12_Witness ==
    /\ EvOf(ev, {"throw"}) # {}
    /\ Drained(ev, "onError", "error") = errorCbs /\ errorCbs # <<>>
    /\ Drained(ev, "readyErrCb", "error") = readyErrorCbs /\ readyErrorCbs # <<>>
    /\ \E k \in EvOf(ev, {"onAbort"}) : ev[k].arg = "error"

\* ------------------------------------------------------------ C13
\* C13: when a guard of a transition whose place in the pending slot a newer
\* transition has taken calls its continuation with false, an error value or
\* a redirect target, no global error callback is called, no ready-error
\* callback is drained, the ready flag is not set, no push or replace is
\* issued, and current and the pending slot are unchanged.
C13_SupersededAbortsSilently ==
    [][\A h \in EvOf(ev', {"next"}) :
         (/\ ev'[h].arg \in {"false", "error"} \cup Redirects
          /\ trans[ev'[h].n].superseded
          /\ pending.id # ev'[h].rid) =>
            /\ EvOf(ev', {"onError", "readyErrCb", "nav"}) = {}
            /\ ready' = ready
            /\ current' = current
            /\ pending' = pending]_vars

\* ------------------------------------------------------------ C14
\* C14: the history is idle after every transition ends: the pending slot
\* holds a route only while a transition to that route is in flight (once
\* the transition has committed or aborted, the slot no longer holds it).
C14_PendingOnlyInFlight ==
    pending # NULL => \E i \in 1..Len(trans) : trans[i].route.id = pending.id

\* ------------------------------------------------------------ C15
\* C15: go(n) with cursor+n outside the stack changes nothing and runs no
\* guard; go(n) with cursor+n inside it confirms a transition to the stored
\* route at that place and, when no guard vetoes, ends with the cursor at
\* cursor+n, current the stored route and the stack unchanged (whether the
\* transition ends within the call or when its last guard continues).
C15_GoMovesCursor ==
    [][/\ \A n \in GoSteps, th \in BOOLEAN :
             ((index + n < 0 \/ index + n >= Len(stack)) /\ Go(n, th)) =>
                 /\ ev' = <<>>
                 /\ UNCHANGED <<index, stack, current, pending, trans>>
       /\ \A n \in GoSteps :
             (/\ index + n >= 0 /\ index + n < Len(stack)
              /\ Go(n, FALSE)
              /\ Len(trans') = Len(trans)) =>
                 /\ index' = index + n
                 /\ current' = stack[index + n + 1]
                 /\ stack' = stack
       /\ \A h \in EvOf(ev', {"next"}) :
             (/\ ev'[h].kind = "go" /\ ev'[h].arg = "none"
              /\ Len(trans') < Len(trans)
              /\ EvOf(ev', {"throw"}) = {}
              /\ ~trans[ev'[h].n].superseded) =>
                 /\ index' = trans[ev'[h].n].targetIndex
                 /\ current' = stack[trans[ev'[h].n].targetIndex + 1]
                 /\ current'.id = ev'[h].rid
                 /\ stack' = stack]_vars

\* ------------------------------------------------------------ C16
\* C16: a callback that an enter guard passes to its continuation is not
\* called when the guard calls the continuation; it is called later, at
\* most once, with the registered instance of its component; and once the
\* guard's route is no longer the history's current route the callback is
\* never called, with or without an instance, and polling for it stops.
C16_EnterCallbackOnlyWhileCurrent ==
    [][/\ \A h \in EvOf(ev', {"next"}) : EvOf(ev', {"enterCb"}) = {}
       /\ \A k \in EvOf(ev', {"enterCb"}) :
             /\ ev'[k].n \in instances
             /\ current.id = ev'[k].rid
             /\ Cardinality({j \in EvOf(ev', {"enterCb"}) :
                               ev'[j].rid = ev'[k].rid /\ ev'[j].n = ev'[k].n}) = 1
       /\ \A k \in 1..Len(enterCbs) :
             /\ enterCbs[k].stage \in {"delivered", "dropped"} => enterCbs'[k] = enterCbs[k]
             /\ (enterCbs[k].stage = "polling" /\ current.id # enterCbs[k].rid
                 /\ \E j \in EvOf(ev', {"timer"}) : ev'[j].n = k) =>
                    enterCbs'[k].stage = "dropped"]_vars

\* ------------------------------------------------------------ C17
\* C17: after each push, replace or go that committed a route, the cursor is
\* a valid index of the stack and the stack entry at the cursor is current.
C17_CursorOnCurrent ==
    [][EvOf(ev', {"commit"}) # {} =>
          /\ 0 <= index' /\ index' < Len(stack')
          /\ stack'[index' + 1] = current']_vars

\* ------------------------------------------------------------ C18
\* The history after every remaining guard of the transition at place i has
\* called its continuation with no value, one after the other.
RECURSIVE allowAll(_, _, _)
allowAll(S, i, n) ==
    IF n = 0 \/ Len(S.trans) < n THEN S
    ELSE allowAll(next(S, i, "none", CHOOSE l \in RawLocs : TRUE, FALSE), i, n)

\* The last action was a navigation cut short as a same-location no-op.
ShortCircuit(log) ==
    /\ Len(log) >= 2
    /\ log[1].type = "ensureURL" /\ log[1].arg = ""
    /\ log[2].type = "abort" /\ log[2].arg = "none" /\ log[2].rid = log[1].rid

\* C18: a navigation cut short as a same-location no-op leaves the pending
\* slot and every transition in flight as they were: the transition that
\* holds the pending slot is not superseded and still commits its route
\* once its guards let it.
C18_NoOpKeepsPending ==
    [][ShortCircuit(ev') =>
          /\ pending' = pending
          /\ trans' = trans
          /\ current' = current
          /\ \A i \in 1..Len(trans) :
                (trans[i].route.id = pending.id /\ ~trans[i].superseded) =>
                    LET R == allowAll(St', i, Len(trans))
                    IN  /\ R.current = trans[i].route
                        /\ R.pending = NULL
                        /\ Len(R.trans) = Len(trans) - 1
                        /\ \A k \in EvOf(R.ev, {"commit"}) : R.ev[k].arg # "superseded"]_vars

\* C18's case: a transition in flight has committed after a same-location
\* navigation was cut short while it was suspended in a guard.
C18_Witness ==
    /\ nextId = 4
    /\ Paths(stack) = <<"/a", "/b">>
    /\ \E k \in EvOf(ev, {"commit"}) :
          ev[k].rid = 2 /\ ev[k].arg # "superseded" /\ current.id = 2

\* ------------------------------------------------------------ C19
InFlight(r) == \E i \in 1..Len(trans) : trans[i].route.id = r

\* The last action committed route r: r is current, the pending slot is
\* empty, the transition's onComplete was called once (and the caller's, for
\* push and replace) and no onAbort.
CommittedNow(r) ==
    /\ current.id = r
    /\ pending = NULL
    /\ ~InFlight(r)
    /\ Cardinality({k \in EvOf(ev, {"commit"}) : ev[k].rid = r}) = 1
    /\ \A k \in EvOf(ev, {"commit"}) :
          Cardinality(EvOf(ev, {"onComplete"})) = (IF ev[k].kind = "go" THEN 0 ELSE 1)
    /\ EvOf(ev, {"abort", "onAbort"}) = {}

\* C19: when no newer navigation is started and every guard of both queues
\* (the async step too) calls its continuation in the end, with a value that
\* neither vetoes nor redirects, a transition in flight commits in the end:
\* its route becomes current, the pending slot is cleared, and onComplete is
\* called exactly once while onAbort is never called.
C19_AllowedTransitionCommits ==
    /\ \A r \in 1..MaxRoutes : InFlight(r) ~> CommittedNow(r)
    /\ [][\A h \in EvOf(ev', {"next"}) : EvOf(ev', {"abort", "onAbort"}) = {}]_vars

\* C19's case: a transition that went through leave guards, global hooks
\* and the loading of an async component has committed.
C19_Witness ==
    /\ CommittedNow(current.id)
    /\ current.matched = <<4>>
    /\ \E k \in EvOf(ev, {"commit"}) : Len(ev[k].ran) >= 6

\* ------------------------------------------------------------ C20
\* How often the history has called the queued callback so far.
Times(call) == Cardinality({k \in 1..Len(readyLog.calls) : readyLog.calls[k] = call})

\* C20: over any navigations that follow an onReady(cb, errCb), cb and errCb
\* are never both called and neither is called more than once (so the
\* callbacks queued before a first transition that failed are not called by
\* a later successful one); an onReady on a ready history calls its cb once
\* and no errCb.
C20_ReadyPairCalledOnce ==
    /\ \A c \in 1..Len(readyCbs) :
          Times(<<c, "cb">>) + Times(<<c, "errorCb">>) <= 1
    /\ \A k \in 1..Len(readyLog.calls) : readyLog.calls[k][1] \in 1..Len(readyCbs)
    /\ \A h \in EvOf(ev, {"call"}) :
          /\ EvOf(ev, {"readyErrCb"}) = {}
          /\ Cardinality(EvOf(ev, {"readyCb"})) <= 1

\* C20's case: the first resolved transition failed and called the queued
\* errCb; a later transition has committed, with cb still queued.
C20_Witness ==
    /\ readyLog.calls = <<<<1, "errorCb">>>>
    /\ readyCbs = <<1>>
    /\ EvOf(ev, {"commit"}) # {}

====
